---- MODULE Spec2Model ----
(***************************************************************************)
(* Model of dagster_airlift/core/serialization/serialized_data.py: the     *)
(* records cached by dagster-airlift (TaskInfo, DagInfo, TaskHandle,       *)
(* MappedAirflowTaskData, SerializedDagData, KeyScopedDataItem,            *)
(* SerializedAirflowDefinitionsData, SerializedTaskHandleData), their      *)
(* derived properties and the functools.cached_property memoization.       *)
(*                                                                         *)
(* Python str values are sequences of one-character strings, so that       *)
(* f-string formatting is a real concatenation.  Values of type Any are    *)
(* tagged with their Python type.  Class names, dict keys of metadata and  *)
(* AssetKeys, which the code only compares, are TLA+ strings.              *)
(***************************************************************************)
EXTENDS Integers, Sequences, FiniteSets, TLC

VARIABLES
    inst,          \* the live record instance (its declared fields)
    cache,         \* the instance __dict__ entries written by cached_property
    ret,           \* outcome of the last call made on / for the instance
    computations,  \* probe: how often a cached_property's function body ran
    calls,         \* number of calls made on the live instance
    reads,         \* probe: number of reads of a cached_property of the instance
    wire,          \* the serialized form last produced, or NoWire
    threads,       \* per reader thread: its position inside cached_property.__get__
    lock           \* the cached_property's lock: whether the build has one, and its holder

vars == <<inst, cache, ret, computations, calls, reads, wire, threads, lock>>
conc == <<threads, lock>>

----------------------------------------------------------------------------
(* Bounds *)

MaxCalls == 3
MaxItems == 3
NumReaders == 2
MaxConcItems == 2

----------------------------------------------------------------------------
(* Python values *)

PyStr(s) == [type |-> "str", s |-> s, items |-> <<>>]
PyInt(s) == [type |-> "int", s |-> s, items |-> <<>>]
PyNone == [type |-> "NoneType", s |-> <<>>, items |-> <<>>]
PyList(xs) == [type |-> "list", s |-> <<>>, items |-> xs]
PyTuple(xs) == [type |-> "tuple", s |-> <<>>, items |-> xs]

EmptyDict == [k \in {} |-> PyNone]

\* The value of an expression that raised instead of returning.
Raised(exc) == [raised |-> TRUE, exc |-> exc, value |-> PyNone]
Returned(v) == [raised |-> FALSE, exc |-> "", value |-> v]

----------------------------------------------------------------------------
(* Input universes *)

WebserverUrls == { <<"h", ":", "1">>, <<"w">> }
DagIds == { <<"d">>, <<"e", "2">> }
TaskIds == { <<"t">>, <<"u", "1">> }

DownstreamValues ==
    { PyList(<<>>),
      PyList(<<PyStr(<<"u", "1">>)>>),
      PyList(<<PyStr(<<"t">>), PyStr(<<"u", "1">>)>>),
      PyList(<<PyInt(<<"7">>)>>),
      PyList(<<PyStr(<<"t">>), PyNone>>),
      PyTuple(<<PyStr(<<"t">>)>>),
      PyStr(<<"t">>),
      PyNone }

TaskMetadatas ==
    { EmptyDict, ("retries" :> PyInt(<<"7">>)) }
    \cup { ("downstream_task_ids" :> v) : v \in DownstreamValues }
    \cup { ("downstream_task_ids" :> PyList(<<>>)) @@ ("retries" :> PyInt(<<"7">>)) }

FileTokenValues ==
    { PyStr(<<"f", "1">>), PyStr(<<>>), PyInt(<<"7">>), PyNone,
      PyList(<<PyStr(<<"f", "1">>)>>) }

DagMetadatas ==
    { EmptyDict, ("owner" :> PyStr(<<"o">>)) }
    \cup { ("file_token" :> v) : v \in FileTokenValues }

----------------------------------------------------------------------------
(* dagster._check.is_list and dict subscription *)

\* check.is_list(obj, of_type=str): obj itself when it is a list whose items
\* are all str, a CheckError otherwise.
check_is_list_str(obj) ==
    IF obj.type = "list" /\ \A i \in 1..Len(obj.items) : obj.items[i].type = "str"
    THEN Returned(obj)
    ELSE Raised("CheckError")

\* d[key] on a dict: KeyError when the key is absent.
getitem(d, key) ==
    IF key \in DOMAIN d THEN Returned(d[key]) ELSE Raised("KeyError")

----------------------------------------------------------------------------
(* TaskInfo *)

NoInstance == [cls |-> "None"]
NoWire == <<>>
NoCache == [k \in {} |-> 0]
NoRet == [op |-> "", args |-> <<>>, raised |-> FALSE, exc |-> "", value |-> PyNone]

Ret(op, args, r) ==
    [op |-> op, args |-> args, raised |-> r.raised, exc |-> r.exc, value |-> r.value]

TaskInfo(webserver_url, dag_id, task_id, metadata) ==
    [cls |-> "TaskInfo", webserver_url |-> webserver_url, dag_id |-> dag_id,
     task_id |-> task_id, metadata |-> metadata]

\* a URL built from the task id instead of the dag id
TaskInfo_dag_url_of_task(self) ==
    self.webserver_url \o <<"/", "d", "a", "g", "s", "/">> \o self.task_id

\* f"{self.webserver_url}/dags/{self.dag_id}"
TaskInfo_dag_url(self) ==
    self.webserver_url \o <<"/", "d", "a", "g", "s", "/">> \o self.dag_id

\* self.metadata.get("downstream_task_ids", []) in place of the subscription
TaskInfo_downstream_task_ids_defaulting(self) ==
    IF "downstream_task_ids" \in DOMAIN self.metadata
    THEN check_is_list_str(self.metadata["downstream_task_ids"])
    ELSE Returned(PyList(<<>>))

\* body of the downstream_task_ids cached_property
TaskInfo_downstream_task_ids(self) ==
    LET v == getitem(self.metadata, "downstream_task_ids")
    IN  IF v.raised THEN v ELSE check_is_list_str(v.value)

\* a plain property: the function runs on every read and nothing is stored
property_get(c, attrname, body) == <<body, c, 1>>

\* a cached_property that also memoizes a failure, as a None entry
cached_property_get_memoizing_failure(c, attrname, body) ==
    IF attrname \in DOMAIN c
    THEN <<Returned(c[attrname]), c, 0>>
    ELSE <<body, (attrname :> body.value) @@ c, 1>>

\* functools.cached_property.__get__ as one sequential call: the value found
\* in the instance __dict__, else the function's value, stored on return; an
\* exception of the function propagates and nothing is stored.
\* The result is <<outcome, cache after the call, function runs>>.
cached_property_get(c, attrname, body) ==
    IF attrname \in DOMAIN c
    THEN <<Returned(c[attrname]), c, 0>>
    ELSE IF body.raised
         THEN <<body, c, 1>>
         ELSE <<body, (attrname :> body.value) @@ c, 1>>

New_TaskInfo(w, d, t, m) ==
    /\ inst = NoInstance
    /\ inst' = TaskInfo(w, d, t, m)
    /\ cache' = NoCache
    /\ ret' = Ret("TaskInfo", <<w, d, t, m>>, Returned(PyNone))
    /\ computations' = 0
    /\ calls' = 0
    /\ reads' = 0
    /\ wire' = NoWire
    /\ UNCHANGED conc

Read_dag_url ==
    /\ inst.cls = "TaskInfo"
    /\ calls < MaxCalls
    /\ ret' = Ret("dag_url", <<>>, Returned(TaskInfo_dag_url(inst)))
    /\ calls' = calls + 1
    /\ UNCHANGED <<inst, cache, computations, reads, wire>>
    /\ UNCHANGED conc

Read_downstream_task_ids ==
    /\ inst.cls = "TaskInfo"
    /\ calls < MaxCalls
    /\ LET g == cached_property_get(cache, "downstream_task_ids",
                                    TaskInfo_downstream_task_ids(inst))
       IN  /\ ret' = Ret("downstream_task_ids", <<>>, g[1])
           /\ cache' = g[2]
           /\ computations' = computations + g[3]
    /\ calls' = calls + 1
    /\ reads' = reads + 1
    /\ UNCHANGED <<inst, wire>>
    /\ UNCHANGED conc

----------------------------------------------------------------------------
(* DagInfo *)

DagInfo(webserver_url, dag_id, metadata) ==
    [cls |-> "DagInfo", webserver_url |-> webserver_url, dag_id |-> dag_id,
     metadata |-> metadata]

\* f"{self.webserver_url}/dags/{self.dag_id}"
DagInfo_url(self) ==
    self.webserver_url \o <<"/", "d", "a", "g", "s", "/">> \o self.dag_id

\* self.metadata["file_token"], returned as stored
DagInfo_file_token(self) == getitem(self.metadata, "file_token")

New_DagInfo(w, d, m) ==
    /\ inst = NoInstance
    /\ inst' = DagInfo(w, d, m)
    /\ cache' = NoCache
    /\ ret' = Ret("DagInfo", <<w, d, m>>, Returned(PyNone))
    /\ computations' = 0
    /\ calls' = 0
    /\ reads' = 0
    /\ wire' = NoWire
    /\ UNCHANGED conc

Read_url ==
    /\ inst.cls = "DagInfo"
    /\ calls < MaxCalls
    /\ ret' = Ret("url", <<>>, Returned(DagInfo_url(inst)))
    /\ calls' = calls + 1
    /\ UNCHANGED <<inst, cache, computations, reads, wire>>
    /\ UNCHANGED conc

Read_file_token ==
    /\ inst.cls = "DagInfo"
    /\ calls < MaxCalls
    /\ ret' = Ret("file_token", <<>>, DagInfo_file_token(inst))
    /\ calls' = calls + 1
    /\ UNCHANGED <<inst, cache, computations, reads, wire>>
    /\ UNCHANGED conc

----------------------------------------------------------------------------
(* TaskHandle and MappedAirflowTaskData *)

\* Optional[bool]
OptBools == { "None", "True", "False" }

TaskHandle(dag_id, task_id) == [dag_id |-> dag_id, task_id |-> task_id]

\* a constructor that repairs the handle from the task_info
MappedAirflowTaskData_repairing(task_info, task_handle, migrated) ==
    [cls |-> "MappedAirflowTaskData", task_info |-> task_info,
     task_handle |-> [dag_id |-> task_info.dag_id, task_id |-> task_info.task_id],
     migrated |-> migrated]

\* @record: the generated constructor stores the three declared fields.
MappedAirflowTaskData(task_info, task_handle, migrated) ==
    [cls |-> "MappedAirflowTaskData", task_info |-> task_info,
     task_handle |-> task_handle, migrated |-> migrated]

BindingTaskInfos ==
    { TaskInfo(<<"w">>, d, t, ("downstream_task_ids" :> PyList(<<>>))) :
        d \in DagIds, t \in TaskIds }

TaskHandles == { TaskHandle(d, t) : d \in DagIds, t \in TaskIds }

New_MappedAirflowTaskData(ti, th, m) ==
    /\ inst = NoInstance
    /\ inst' = MappedAirflowTaskData(ti, th, m)
    /\ cache' = NoCache
    /\ ret' = Ret("MappedAirflowTaskData", <<ti, th, m>>, Returned(PyNone))
    /\ computations' = 0
    /\ calls' = 0
    /\ reads' = 0
    /\ wire' = NoWire
    /\ UNCHANGED conc

----------------------------------------------------------------------------
(* SerializedTaskHandleData, SerializedDagData, KeyScopedDataItem *)

AssetKeys == { "k1", "k2" }

SerializedTaskHandleData(migration_state, asset_keys_in_task) ==
    [cls |-> "SerializedTaskHandleData", migration_state |-> migration_state,
     asset_keys_in_task |-> asset_keys_in_task]

SerializedDagData(dag_id, task_handle_data, dag_info, source_code, leaf_asset_keys, task_infos) ==
    [cls |-> "SerializedDagData", dag_id |-> dag_id,
     task_handle_data |-> task_handle_data, dag_info |-> dag_info,
     source_code |-> source_code, leaf_asset_keys |-> leaf_asset_keys,
     task_infos |-> task_infos]

KeyScopedDataItem(asset_key, mapped_tasks) ==
    [cls |-> "KeyScopedDataItem", asset_key |-> asset_key,
     mapped_tasks |-> mapped_tasks]

ValidTaskMetadata == ("downstream_task_ids" :> PyList(<<>>))

\* mapped_tasks lists: one binding, two bindings, and a
\* binding whose handle names another task than its task_info.
MappedTaskLists ==
    LET ti1 == TaskInfo(<<"w">>, <<"d">>, <<"t">>, ValidTaskMetadata)
        ti2 == TaskInfo(<<"w">>, <<"d">>, <<"u", "1">>, ValidTaskMetadata)
        b1 == MappedAirflowTaskData(ti1, TaskHandle(<<"d">>, <<"t">>), "None")
        b2 == MappedAirflowTaskData(ti2, TaskHandle(<<"d">>, <<"u", "1">>), "False")
        b3 == MappedAirflowTaskData(ti1, TaskHandle(<<"d">>, <<"u", "1">>), "True")
    IN  { <<b1>>, <<b2, b1>>, <<b3>> }

KeyScopedDataItems ==
    { KeyScopedDataItem(k, l) : k \in AssetKeys, l \in MappedTaskLists }

RECURSIVE SeqsUpTo(_, _)
SeqsUpTo(S, n) ==
    IF n = 0 THEN { <<>> }
    ELSE LET shorter == SeqsUpTo(S, n - 1)
         IN  shorter \cup { Append(q, x) : q \in shorter, x \in S }

DagDatas ==
    LET d1 == SerializedDagData(
                <<"d">>,
                (<<"t">> :> SerializedTaskHandleData("None", {"k1"}))
                  @@ (<<"u", "1">> :> SerializedTaskHandleData("False", {})),
                DagInfo(<<"w">>, <<"d">>, ("file_token" :> PyStr(<<"f", "1">>))),
                <<"s", "r", "c">>,
                {"k1"},
                (<<"t">> :> TaskInfo(<<"w">>, <<"d">>, <<"t">>, ValidTaskMetadata)))
        d2 == SerializedDagData(
                <<"e", "2">>,
                (<<"t">> :> SerializedTaskHandleData("True", {"k1", "k2"})),
                DagInfo(<<"w">>, <<"e", "2">>, ("file_token" :> PyStr(<<>>))),
                <<>>,
                {},
                (<<"t">> :> TaskInfo(<<"w">>, <<"e", "2">>, <<"t">>, ValidTaskMetadata)))
    IN  { EmptyDict, (<<"d">> :> d1), (<<"d">> :> d1) @@ (<<"e", "2">> :> d2) }

----------------------------------------------------------------------------
(* SerializedAirflowDefinitionsData *)

SerializedAirflowDefinitionsData(key_scoped_data_items, dag_datas) ==
    [cls |-> "SerializedAirflowDefinitionsData",
     key_scoped_data_items |-> key_scoped_data_items, dag_datas |-> dag_datas]

\* a comprehension step that keeps the first binding list of a key
DictCompStep_first_wins(acc, item) == acc @@ (item.asset_key :> item.mapped_tasks)

\* one iteration of the dict comprehension: result[item.asset_key] = item.mapped_tasks
DictCompStep(acc, item) == (item.asset_key :> item.mapped_tasks) @@ acc

RECURSIVE DictComp(_, _)
DictComp(acc, items) ==
    IF items = <<>> THEN acc
    ELSE DictComp(DictCompStep(acc, Head(items)), Tail(items))

\* {item.asset_key: item.mapped_tasks for item in self.key_scoped_data_items}
all_mapped_tasks(self) == DictComp(EmptyDict, self.key_scoped_data_items)

\* dagSnapshot(dag_id) -> DagSnapshot | NotFound
NotFound == [cls |-> "NotFound"]

\* a lookup by subscription, which raises on a missing dag id
dagSnapshot_subscript(self, dag_id) == getitem(self.dag_datas, dag_id)

dagSnapshot(self, dag_id) ==
    IF dag_id \in DOMAIN self.dag_datas
    THEN Returned(self.dag_datas[dag_id])
    ELSE Returned(NotFound)

New_SerializedAirflowDefinitionsData(items, dags) ==
    /\ inst = NoInstance
    /\ inst' = SerializedAirflowDefinitionsData(items, dags)
    /\ cache' = NoCache
    /\ ret' = Ret("SerializedAirflowDefinitionsData", <<items, dags>>, Returned(PyNone))
    /\ computations' = 0
    /\ calls' = 0
    /\ reads' = 0
    /\ wire' = NoWire
    /\ UNCHANGED conc

Read_all_mapped_tasks ==
    /\ inst.cls = "SerializedAirflowDefinitionsData"
    /\ calls < MaxCalls
    /\ LET g == cached_property_get(cache, "all_mapped_tasks",
                                    Returned(all_mapped_tasks(inst)))
       IN  /\ ret' = Ret("all_mapped_tasks", <<>>, g[1])
           /\ cache' = g[2]
           /\ computations' = computations + g[3]
    /\ calls' = calls + 1
    /\ reads' = reads + 1
    /\ UNCHANGED <<inst, wire>>
    /\ UNCHANGED conc

Call_dagSnapshot(dag_id) ==
    /\ inst.cls = "SerializedAirflowDefinitionsData"
    /\ calls < MaxCalls
    /\ ret' = Ret("dagSnapshot", <<dag_id>>, dagSnapshot(inst, dag_id))
    /\ calls' = calls + 1
    /\ UNCHANGED <<inst, cache, computations, reads, wire>>
    /\ UNCHANGED conc

----------------------------------------------------------------------------
(* The whitelist_for_serdes codec: packing to a tagged JSON tree and back *)

JNode(j, cls, str, items, members) ==
    [j |-> j, cls |-> cls, s |-> str, items |-> items, members |-> members]

JNull == JNode("null", "", <<>>, <<>>, <<>>)
JTrue == JNode("true", "", <<>>, <<>>, <<>>)
JFalse == JNode("false", "", <<>>, <<>>, <<>>)
JStr(str) == JNode("string", "", str, <<>>, <<>>)
JNum(str) == JNode("number", "", str, <<>>, <<>>)
JArr(items) == JNode("array", "", <<>>, items, <<>>)
JObj(cls, members) == JNode("object", cls, <<>>, <<>>, members)

MapSeq(F(_), q) == [i \in 1..Len(q) |-> F(q[i])]
MapDict(F(_), d) == [k \in DOMAIN d |-> F(d[k])]

\* a set is written as an array of its elements in a fixed order
SetToSeq(S) == CHOOSE q \in [1..Cardinality(S) -> S] : { q[i] : i \in 1..Cardinality(S) } = S

\* a packing that writes an unknown flag as false
pack_optbool_falsy(b) == IF b = "True" THEN JTrue ELSE JFalse

pack_optbool(b) ==
    CASE b = "None" -> JNull
      [] b = "True" -> JTrue
      [] b = "False" -> JFalse

unpack_optbool(n) ==
    CASE n.j = "null" -> "None"
      [] n.j = "true" -> "True"
      [] n.j = "false" -> "False"

pack_scalar(v) ==
    CASE v.type = "str" -> JStr(v.s)
      [] v.type = "int" -> JNum(v.s)
      [] v.type = "NoneType" -> JNull

unpack_scalar(n) ==
    CASE n.j = "string" -> PyStr(n.s)
      [] n.j = "number" -> PyInt(n.s)
      [] n.j = "null" -> PyNone

pack_any(v) ==
    IF v.type = "list" THEN JArr(MapSeq(pack_scalar, v.items)) ELSE pack_scalar(v)

unpack_any(n) ==
    IF n.j = "array" THEN PyList(MapSeq(unpack_scalar, n.items)) ELSE unpack_scalar(n)

pack_AssetKey(k) == JObj("AssetKey", ("path" :> JArr(<<k>>)))
unpack_AssetKey(n) == n.members["path"].items[1]

pack_set(S) == JObj("__set__", ("__set__" :> JArr(MapSeq(pack_AssetKey, SetToSeq(S)))))
unpack_set(n) ==
    LET a == n.members["__set__"].items
    IN  { unpack_AssetKey(a[i]) : i \in 1..Len(a) }

pack_TaskInfo(x) ==
    JObj("TaskInfo",
         ("webserver_url" :> JStr(x.webserver_url)) @@ ("dag_id" :> JStr(x.dag_id))
           @@ ("task_id" :> JStr(x.task_id))
           @@ ("metadata" :> JObj("", MapDict(pack_any, x.metadata))))

unpack_TaskInfo(n) ==
    TaskInfo(n.members["webserver_url"].s, n.members["dag_id"].s,
             n.members["task_id"].s,
             MapDict(unpack_any, n.members["metadata"].members))

pack_DagInfo(x) ==
    JObj("DagInfo",
         ("webserver_url" :> JStr(x.webserver_url)) @@ ("dag_id" :> JStr(x.dag_id))
           @@ ("metadata" :> JObj("", MapDict(pack_any, x.metadata))))

unpack_DagInfo(n) ==
    DagInfo(n.members["webserver_url"].s, n.members["dag_id"].s,
            MapDict(unpack_any, n.members["metadata"].members))

pack_TaskHandle(x) ==
    JObj("TaskHandle", ("dag_id" :> JStr(x.dag_id)) @@ ("task_id" :> JStr(x.task_id)))

unpack_TaskHandle(n) == TaskHandle(n.members["dag_id"].s, n.members["task_id"].s)

pack_MappedAirflowTaskData(x) ==
    JObj("MappedAirflowTaskData",
         ("task_info" :> pack_TaskInfo(x.task_info))
           @@ ("task_handle" :> pack_TaskHandle(x.task_handle))
           @@ ("migrated" :> pack_optbool(x.migrated)))

unpack_MappedAirflowTaskData(n) ==
    MappedAirflowTaskData(unpack_TaskInfo(n.members["task_info"]),
                          unpack_TaskHandle(n.members["task_handle"]),
                          unpack_optbool(n.members["migrated"]))

pack_SerializedTaskHandleData(x) ==
    JObj("SerializedTaskHandleData",
         ("migration_state" :> pack_optbool(x.migration_state))
           @@ ("asset_keys_in_task" :> pack_set(x.asset_keys_in_task)))

unpack_SerializedTaskHandleData(n) ==
    SerializedTaskHandleData(unpack_optbool(n.members["migration_state"]),
                             unpack_set(n.members["asset_keys_in_task"]))

pack_SerializedDagData(x) ==
    JObj("SerializedDagData",
         ("dag_id" :> JStr(x.dag_id))
           @@ ("task_handle_data" :>
                 JObj("", MapDict(pack_SerializedTaskHandleData, x.task_handle_data)))
           @@ ("dag_info" :> pack_DagInfo(x.dag_info))
           @@ ("source_code" :> JStr(x.source_code))
           @@ ("leaf_asset_keys" :> pack_set(x.leaf_asset_keys))
           @@ ("task_infos" :> JObj("", MapDict(pack_TaskInfo, x.task_infos))))

unpack_SerializedDagData(n) ==
    SerializedDagData(
        n.members["dag_id"].s,
        MapDict(unpack_SerializedTaskHandleData, n.members["task_handle_data"].members),
        unpack_DagInfo(n.members["dag_info"]),
        n.members["source_code"].s,
        unpack_set(n.members["leaf_asset_keys"]),
        MapDict(unpack_TaskInfo, n.members["task_infos"].members))

pack_KeyScopedDataItem(x) ==
    JObj("KeyScopedDataItem",
         ("asset_key" :> pack_AssetKey(x.asset_key))
           @@ ("mapped_tasks" :> JArr(MapSeq(pack_MappedAirflowTaskData, x.mapped_tasks))))

unpack_KeyScopedDataItem(n) ==
    KeyScopedDataItem(
        unpack_AssetKey(n.members["asset_key"]),
        MapSeq(unpack_MappedAirflowTaskData, n.members["mapped_tasks"].items))

\* serialize_value(envelope)
serialize_value(x) ==
    JObj("SerializedAirflowDefinitionsData",
         ("key_scoped_data_items" :>
              JArr(MapSeq(pack_KeyScopedDataItem, x.key_scoped_data_items)))
           @@ ("dag_datas" :> JObj("", MapDict(pack_SerializedDagData, x.dag_datas))))

\* deserialize_value(wire): rebuilds each record through its constructor
deserialize_value(n) ==
    SerializedAirflowDefinitionsData(
        MapSeq(unpack_KeyScopedDataItem, n.members["key_scoped_data_items"].items),
        MapDict(unpack_SerializedDagData, n.members["dag_datas"].members))

Call_serialize_value ==
    /\ inst.cls = "SerializedAirflowDefinitionsData"
    /\ calls < MaxCalls
    /\ wire' = serialize_value(inst)
    /\ ret' = Ret("serialize_value", <<>>, Returned(PyNone))
    /\ calls' = calls + 1
    /\ UNCHANGED <<inst, cache, computations, reads>>
    /\ UNCHANGED conc

Call_deserialize_value ==
    /\ wire # NoWire
    /\ calls < MaxCalls
    /\ ret' = Ret("deserialize_value", <<>>, Returned(deserialize_value(wire)))
    /\ calls' = calls + 1
    /\ UNCHANGED <<inst, cache, computations, reads, wire>>
    /\ UNCHANGED conc

----------------------------------------------------------------------------
(* Concurrent first access to all_mapped_tasks: cached_property.__get__ and *)
(* the dict comprehension, one step at a time per reader thread.           *)

Readers == 1..NumReaders

NoThreads == <<>>
NoLock == [present |-> FALSE, holder |-> 0]

Idle == [pc |-> "get", idx |-> 1, acc |-> EmptyDict, val |-> EmptyDict]

\* val = cache.get(self.attrname, _NOT_FOUND)
T_get(r) ==
    /\ threads[r].pc = "get"
    /\ IF "all_mapped_tasks" \in DOMAIN cache
       THEN threads' = [threads EXCEPT ![r].pc = "done", ![r].val = cache["all_mapped_tasks"]]
       ELSE threads' = [threads EXCEPT ![r].pc = IF lock.present THEN "acquire" ELSE "compute"]
    /\ computations' = computations + (IF threads'[r].pc = "compute" THEN 1 ELSE 0)
    /\ UNCHANGED <<inst, cache, ret, calls, reads, wire, lock>>

\* with self.lock: (builds whose cached_property has a lock)
T_acquire(r) ==
    /\ threads[r].pc = "acquire"
    /\ lock.holder = 0
    /\ lock' = [lock EXCEPT !.holder = r]
    /\ threads' = [threads EXCEPT ![r].pc = "recheck"]
    /\ UNCHANGED <<inst, cache, ret, computations, calls, reads, wire>>

\* check if another thread filled cache while we awaited lock
T_recheck(r) ==
    /\ threads[r].pc = "recheck"
    /\ IF "all_mapped_tasks" \in DOMAIN cache
       THEN /\ threads' = [threads EXCEPT ![r].pc = "done", ![r].val = cache["all_mapped_tasks"]]
            /\ lock' = [lock EXCEPT !.holder = 0]
            /\ UNCHANGED computations
       ELSE /\ threads' = [threads EXCEPT ![r].pc = "compute"]
            /\ computations' = computations + 1
            /\ UNCHANGED lock
    /\ UNCHANGED <<inst, cache, ret, calls, reads, wire>>

\* a comprehension that fills the dict it has already put in the shared cache
T_iterate_in_place(r) ==
    /\ threads[r].pc = "compute"
    /\ threads[r].idx <= Len(inst.key_scoped_data_items)
    /\ threads' = [threads EXCEPT
                     ![r].acc = DictCompStep(@, inst.key_scoped_data_items[threads[r].idx]),
                     ![r].idx = @ + 1]
    /\ cache' = ("all_mapped_tasks" :> threads'[r].acc) @@ cache
    /\ UNCHANGED <<inst, ret, computations, calls, reads, wire, lock>>

\* val = self.func(instance): one iteration of the comprehension over
\* self.key_scoped_data_items, into the thread's own dict
T_iterate(r) ==
    /\ threads[r].pc = "compute"
    /\ threads[r].idx <= Len(inst.key_scoped_data_items)
    /\ threads' = [threads EXCEPT
                     ![r].acc = DictCompStep(@, inst.key_scoped_data_items[threads[r].idx]),
                     ![r].idx = @ + 1]
    /\ UNCHANGED <<inst, cache, ret, computations, calls, reads, wire, lock>>

\* cache[self.attrname] = val; return val
T_store(r) ==
    /\ threads[r].pc = "compute"
    /\ threads[r].idx > Len(inst.key_scoped_data_items)
    /\ cache' = ("all_mapped_tasks" :> threads[r].acc) @@ cache
    /\ threads' = [threads EXCEPT ![r].pc = "done", ![r].val = threads[r].acc]
    /\ lock' = IF lock.holder = r THEN [lock EXCEPT !.holder = 0] ELSE lock
    /\ UNCHANGED <<inst, ret, computations, calls, reads, wire>>

----------------------------------------------------------------------------

Init ==
    /\ inst = NoInstance
    /\ cache = NoCache
    /\ ret = NoRet
    /\ computations = 0
    /\ calls = 0
    /\ reads = 0
    /\ wire = NoWire
    /\ threads = NoThreads
    /\ lock = NoLock

Next ==
    \/ \E w \in WebserverUrls, d \in DagIds, t \in TaskIds, m \in TaskMetadatas :
          New_TaskInfo(w, d, t, m)
    \/ Read_dag_url
    \/ Read_downstream_task_ids
    \/ \E w \in WebserverUrls, d \in DagIds, m \in DagMetadatas :
          New_DagInfo(w, d, m)
    \/ Read_url
    \/ Read_file_token
    \/ \E ti \in BindingTaskInfos, th \in TaskHandles, m \in OptBools :
          New_MappedAirflowTaskData(ti, th, m)
    \/ \E items \in SeqsUpTo(KeyScopedDataItems, MaxItems), dags \in DagDatas :
          New_SerializedAirflowDefinitionsData(items, dags)
    \/ Read_all_mapped_tasks
    \/ \E dag_id \in DagIds : Call_dagSnapshot(dag_id)
    \/ Call_serialize_value
    \/ Call_deserialize_value

Spec == Init /\ [][Next]_vars

\* An envelope shared by NumReaders reader threads, none of which has read
\* all_mapped_tasks yet.  Whether cached_property takes a lock depends on the
\* Python build (it does before 3.12).
InitConc ==
    /\ inst \in { SerializedAirflowDefinitionsData(items, dags) :
                    items \in SeqsUpTo(KeyScopedDataItems, MaxConcItems),
                    dags \in DagDatas }
    /\ cache = NoCache
    /\ ret = NoRet
    /\ computations = 0
    /\ calls = 0
    /\ reads = 0
    /\ wire = NoWire
    /\ threads = [r \in Readers |-> Idle]
    /\ lock \in { [present |-> b, holder |-> 0] : b \in BOOLEAN }

NextConc ==
    \E r \in Readers :
        \/ T_get(r)
        \/ T_acquire(r)
        \/ T_recheck(r)
        \/ T_iterate(r)
        \/ T_store(r)

SpecConc == InitConc /\ [][NextConc]_vars

----------------------------------------------------------------------------
(* Properties *)

ItemKeys(items) == { items[i].asset_key : i \in 1..Len(items) }

LastIndexOf(items, k) ==
    CHOOSE i \in 1..Len(items) :
        /\ items[i].asset_key = k
        /\ \A j \in (i + 1)..Len(items) : items[j].asset_key # k

IsLastWinsMap(m, items) ==
    /\ DOMAIN m = ItemKeys(items)
    /\ \A k \in ItemKeys(items) : m[k] = items[LastIndexOf(items, k)].mapped_tasks

HasOverwrittenKey(items) ==
    \E i \in 1..Len(items), j \in 1..Len(items) :
        /\ i < j
        /\ items[i].asset_key = items[j].asset_key
        /\ items[i].mapped_tasks # items[j].mapped_tasks

\* C1: all_mapped_tasks has exactly the asset keys of key_scoped_data_items as
\* its keys, and maps each key to the mapped_tasks list, order unchanged, of
\* the last item carrying that key; earlier items of the key are dropped.
C1_LastItemWins ==
    ret.op = "all_mapped_tasks" =>
        /\ ~ret.raised
        /\ IsLastWinsMap(ret.value, inst.key_scoped_data_items)

C1_Witness ==
    /\ ret.op = "all_mapped_tasks"
    /\ Len(inst.key_scoped_data_items) = 3
    /\ Cardinality(ItemKeys(inst.key_scoped_data_items)) = 2
    /\ HasOverwrittenKey(inst.key_scoped_data_items)
    /\ \E k \in DOMAIN ret.value : Len(ret.value[k]) = 2

IsReadOf(attrname) == ret'.op = attrname /\ reads' = reads + 1

\* C2: over any sequence of reads of all_mapped_tasks on one envelope the
\* aggregation runs at most once, on the first read, and every later read
\* returns the value the first read stored, without running it again.
C2_ComputedOnce ==
    /\ [](inst.cls = "SerializedAirflowDefinitionsData" =>
            /\ computations <= 1
            /\ (reads >= 1 => computations = 1)
            /\ (ret.op = "all_mapped_tasks" =>
                  /\ "all_mapped_tasks" \in DOMAIN cache
                  /\ ret.value = cache["all_mapped_tasks"]))
    /\ [][("all_mapped_tasks" \in DOMAIN cache /\ IsReadOf("all_mapped_tasks")) =>
            /\ computations' = computations
            /\ cache' = cache
            /\ ret'.value = cache["all_mapped_tasks"]]_vars

C2_Witness ==
    /\ ret.op = "all_mapped_tasks"
    /\ reads = 3
    /\ computations = 1
    /\ Len(inst.key_scoped_data_items) >= 2

HandleMatches(task_info, task_handle) ==
    /\ task_handle.dag_id = task_info.dag_id
    /\ task_handle.task_id = task_info.task_id

SchemaContractViolation == { "KeyError", "CheckError" }

IsListOfStr(v) ==
    /\ v.type = "list"
    /\ \A i \in 1..Len(v.items) : v.items[i].type = "str"

IsSequenceOfStr(v) ==
    /\ v.type \in { "list", "tuple" }
    /\ \A i \in 1..Len(v.items) : v.items[i].type = "str"

\* C4: reading downstream_task_ids fails with a SchemaContractViolation, and
\* returns no defaulted value, when the metadata lacks the key or holds under
\* it something that is not a sequence of strings only; it returns exactly the
\* stored list when the metadata holds a list of strings.
C4_DownstreamTaskIds ==
    ret.op = "downstream_task_ids" =>
        LET m == inst.metadata
        IN  /\ ("downstream_task_ids" \notin DOMAIN m) =>
                  ret.raised /\ ret.exc \in SchemaContractViolation
            /\ ("downstream_task_ids" \in DOMAIN m
                  /\ ~IsSequenceOfStr(m["downstream_task_ids"])) =>
                  ret.raised /\ ret.exc \in SchemaContractViolation
            /\ ("downstream_task_ids" \in DOMAIN m
                  /\ IsListOfStr(m["downstream_task_ids"])) =>
                  ~ret.raised /\ ret.value = m["downstream_task_ids"]

C4_Witness ==
    /\ ret.op = "downstream_task_ids"
    /\ "downstream_task_ids" \notin DOMAIN inst.metadata
    /\ DOMAIN inst.metadata # {}
    /\ ret.raised

\* C5: reading file_token returns metadata["file_token"] when it is a string
\* and fails with a SchemaContractViolation when the key is missing or the
\* value is not a string; a non-string value is never returned.
C5_FileToken ==
    ret.op = "file_token" =>
        LET m == inst.metadata
        IN  IF "file_token" \in DOMAIN m /\ m["file_token"].type = "str"
            THEN ~ret.raised /\ ret.value = m["file_token"]
            ELSE ret.raised /\ ret.exc \in SchemaContractViolation

\* C6: looking up a dag id that is no key of dag_datas returns NotFound as a
\* value: nothing is raised, the result is no snapshot, and it is neither of
\* the violation kinds; looking up a key returns the stored SerializedDagData.
C6_DagSnapshot ==
    ret.op = "dagSnapshot" =>
        /\ ~ret.raised
        /\ ret.exc \notin SchemaContractViolation \cup { "ConstructionInvariantViolation" }
        /\ IF ret.args[1] \in DOMAIN inst.dag_datas
           THEN ret.value = inst.dag_datas[ret.args[1]]
           ELSE ret.value = NotFound /\ ret.value.cls # "SerializedDagData"

C6_Witness ==
    /\ ret.op = "dagSnapshot"
    /\ ret.args[1] \notin DOMAIN inst.dag_datas
    /\ DOMAIN inst.dag_datas # {}

\* C7: when several readers make their first access to all_mapped_tasks
\* concurrently, every reader that returns holds the last-wins map of
\* key_scoped_data_items, whatever the interleaving; the shared cache never
\* holds anything but that complete map; and no access changes the envelope.
C7_ConcurrentFirstAccess ==
    /\ [](/\ \A r \in Readers :
               threads[r].pc = "done" =>
                   IsLastWinsMap(threads[r].val, inst.key_scoped_data_items)
          /\ "all_mapped_tasks" \in DOMAIN cache =>
               IsLastWinsMap(cache["all_mapped_tasks"], inst.key_scoped_data_items))
    /\ [][inst' = inst]_vars

C7_Witness ==
    /\ \A r \in Readers : threads[r].pc = "done"
    /\ computations = NumReaders
    /\ Len(inst.key_scoped_data_items) = 2
    /\ Cardinality(ItemKeys(inst.key_scoped_data_items)) = 2

Flags(e) ==
    UNION { { <<i, j, e.key_scoped_data_items[i].mapped_tasks[j].migrated>> :
                j \in 1..Len(e.key_scoped_data_items[i].mapped_tasks) } :
            i \in 1..Len(e.key_scoped_data_items) }

HandleFlags(e) ==
    UNION { { <<d, t, e.dag_datas[d].task_handle_data[t].migration_state>> :
                t \in DOMAIN e.dag_datas[d].task_handle_data } :
            d \in DOMAIN e.dag_datas }

\* C8: decoding the encoding of an envelope gives a structurally equal
\* envelope, nested entities included; an unknown (None) migration flag comes
\* back as None, never as False; and all_mapped_tasks of the decoded envelope
\* equals that of the original.
C8_RoundTrip ==
    ret.op = "deserialize_value" =>
        /\ ~ret.raised
        /\ ret.value = inst
        /\ \A f \in Flags(inst) : f[3] = "None" => f \in Flags(ret.value)
        /\ \A f \in HandleFlags(inst) : f[3] = "None" => f \in HandleFlags(ret.value)
        /\ all_mapped_tasks(ret.value) = all_mapped_tasks(inst)

C8_Witness ==
    /\ ret.op = "deserialize_value"
    /\ \E f \in Flags(inst) : f[3] = "None"
    /\ \E f \in Flags(inst) : f[3] = "False"
    /\ \E f \in HandleFlags(inst) : f[3] = "None"
    /\ \E d \in DOMAIN inst.dag_datas : inst.dag_datas[d].leaf_asset_keys # {}

Slash_dags_slash == <<"/", "d", "a", "g", "s", "/">>

IsDagUrl(u, webserver_url, dag_id) ==
    /\ Len(u) = Len(webserver_url) + 6 + Len(dag_id)
    /\ SubSeq(u, 1, Len(webserver_url)) = webserver_url
    /\ SubSeq(u, Len(webserver_url) + 1, Len(webserver_url) + 6) = Slash_dags_slash
    /\ SubSeq(u, Len(webserver_url) + 7, Len(u)) = dag_id

\* C9: dag_url of a TaskInfo and url of a DagInfo are the webserver_url
\* followed by "/dags/" followed by the dag_id; the URL is a function of these
\* two fields alone, whatever the task_id and the metadata.
C9_Urls ==
    /\ ret.op = "dag_url" =>
          ~ret.raised /\ IsDagUrl(ret.value, inst.webserver_url, inst.dag_id)
    /\ ret.op = "url" =>
          ~ret.raised /\ IsDagUrl(ret.value, inst.webserver_url, inst.dag_id)

C9_Witness ==
    /\ ret.op = "url"
    /\ inst.cls = "DagInfo"
    /\ Len(inst.webserver_url) = 3
    /\ Len(inst.dag_id) = 2
    /\ Len(ret.value) = 11

HasValidDownstream(m) ==
    /\ "downstream_task_ids" \in DOMAIN m
    /\ IsListOfStr(m["downstream_task_ids"])

\* C10: a TaskInfo is constructed whatever its metadata; the violation shows
\* only on reading downstream_task_ids; a failed read changes neither the
\* fields nor the cache, so every read of such a record fails and dag_url
\* stays readable with the same value; after a successful read every later
\* read returns the same value.
C10_LazyUnmemoizedFailure ==
    /\ [](/\ ret.op = "TaskInfo" =>
               /\ ~ret.raised
               /\ inst = TaskInfo(ret.args[1], ret.args[2], ret.args[3], ret.args[4])
          /\ (inst.cls = "TaskInfo" /\ ~HasValidDownstream(inst.metadata)) =>
               /\ cache = NoCache
               /\ ret.op = "downstream_task_ids" => ret.raised
               /\ ret.op = "dag_url" =>
                    ~ret.raised /\ IsDagUrl(ret.value, inst.webserver_url, inst.dag_id)
          /\ (inst.cls = "TaskInfo" /\ ret.op = "downstream_task_ids" /\ ~ret.raised) =>
               /\ "downstream_task_ids" \in DOMAIN cache
               /\ ret.value = cache["downstream_task_ids"])
    /\ [][/\ (IsReadOf("downstream_task_ids") /\ ret'.raised) =>
               inst' = inst /\ cache' = cache
          /\ ("downstream_task_ids" \in DOMAIN cache /\ IsReadOf("downstream_task_ids")) =>
               /\ ~ret'.raised
               /\ ret'.value = cache["downstream_task_ids"]
               /\ cache' = cache
          /\ inst.cls = "TaskInfo" => inst' = inst]_vars

C10_Witness ==
    /\ inst.cls = "TaskInfo"
    /\ "downstream_task_ids" \in DOMAIN inst.metadata
    /\ ~HasValidDownstream(inst.metadata)
    /\ reads = 2
    /\ calls = 3
    /\ ret.op = "dag_url"

====
